---- MODULE Spec2Model ----
(***************************************************************************)
(* The event store of blockchain-universe (internal/blockchain) and the    *)
(* calls its callers make on it.                                           *)
(*                                                                         *)
(* Go strings are sequences of bytes.  The store's map holds pointers to   *)
(* Event objects (map[string]*Event).  A pointer is named by where the     *)
(* object it leads to is kept: in the caller's hand (an event CreateEvent  *)
(* returned and AddEvent has not taken) or in events under a key.  Time is *)
(* counted in ticks, with TicksPerSec ticks to the second.                 *)
(***************************************************************************)
EXTENDS Integers, Sequences, FiniteSets, TLC

\* ------------------------------------------------------------------ bounds
MaxTime == 2        \* the clock stops at this tick
TicksPerSec == 2    \* resolution of the clock below one second
MaxDepth == 3       \* largest maxDepth given to GetEventChain
MaxLimit == 3       \* largest limit given to GetRecentEvents
MaxAdds == 3        \* most turns of a caller's loop of CreateEvent and AddEvent

\* ------------------------------------------------------------ input values
\* "init", "state_change"
StrInit == <<105, 110, 105, 116>>
StrStateChange == <<115, 116, 97, 116, 101, 95, 99, 104, 97, 110, 103, 101>>
Types == {StrInit, StrStateChange}

\* "a", "a\xff", "a\xfe": the last two hold a byte that is no UTF-8
DescA == <<97>>
DescFF == <<97, 255>>
DescFE == <<97, 254>>
Descs == {DescA, DescFF, DescFE}

\* "k", "v"
StrK == <<107>>
StrV == <<118>>
EmptyMap == [k \in {} |-> <<>>]
MapKV == [k \in {StrK} |-> StrV]
Maps == {EmptyMap, MapKV}

Keys == {"K1", "K2"}

\* --------------------------------------------------------------- helpers
Range(f) == {f[x] : x \in DOMAIN f}

\* m with m[k] = v (a Go map assignment m[k] = v)
Put(m, k, v) == [x \in DOMAIN m \cup {k} |-> IF x = k THEN v ELSE m[x]]

\* ------------------------------------------------------------------ crypto
\* ed25519.GenerateKey: the public key (32 bytes) and private key (64 bytes)
\* of key pair k.
PublicKey(k) == [len |-> 32, key |-> k]
PrivateKey(k) == [len |-> 64, key |-> k]

\* hex.EncodeToString: lowercase hex digits of the bytes.
EncodeToString(bytes) == [valid |-> TRUE, bytes |-> bytes]

\* hex.DecodeString: the bytes; an error for a string that is not hex.
DecodeString(s) == [err |-> ~s.valid, bytes |-> s.bytes]

\* encoding/json on a string: bytes that are no UTF-8 become U+FFFD (65533).
\* The inputs hold ASCII and the bytes 0xFE, 0xFF, which never occur in UTF-8.
JSONString(s) == [i \in 1..Len(s) |-> IF s[i] < 128 THEN s[i] ELSE 65533]

\* Lexicographic order of byte strings (the order json sorts map keys in).
RECURSIVE LexLess(_, _)
LexLess(a, b) ==
    IF b = <<>> THEN FALSE
    ELSE IF a = <<>> THEN TRUE
    ELSE IF Head(a) # Head(b) THEN Head(a) < Head(b)
    ELSE LexLess(Tail(a), Tail(b))

\* encoding/json on a map[string]string: the entries in the order of their
\* keys, key and value each encoded as a string.
RECURSIVE JSONMap(_)
JSONMap(m) ==
    IF DOMAIN m = {} THEN <<>>
    ELSE LET k == CHOOSE x \in DOMAIN m : \A y \in DOMAIN m \ {x} : LexLess(x, y)
             rest == [x \in DOMAIN m \ {k} |-> m[x]]
         IN <<(<<JSONString(k), JSONString(m[k])>>)>> \o JSONMap(rest)

\* json.Marshal(event.Data): the four fields in the order of the struct.
JSONMarshal(data) ==
    [type |-> JSONString(data.Type),
     description |-> JSONString(data.Description),
     payload |-> JSONMap(data.Payload),
     timestamp |-> data.Timestamp]

\* HashEvent over the parents as well as the payload
HashEvent_WithParents(event) ==
    [sha3 |-> JSONMarshal(event.Data),
     parents |-> IF "Parents" \in DOMAIN event THEN event.Parents ELSE <<>>]

\* HashEvent: hex(sha3.Sum512(json.Marshal(event.Data))).  SHA3-512 and the hex
\* encoding are taken to be collision-free: the digest stands for its input.
HashEvent(event) == [sha3 |-> JSONMarshal(event.Data)]

\* ed25519.Sign(priv, message): the signature (64 bytes) of key priv.key on
\* message.
ed25519Sign(priv, message) == [len |-> 64, key |-> priv.key, msg |-> message]

\* ed25519.Verify(publicKey, message, sig): panics on a public key that is not
\* 32 bytes long; false for a signature that is not 64 bytes long.
ed25519Verify(publicKey, message, sig) ==
    IF publicKey.len # 32 THEN "panic"
    ELSE IF sig.len # 64 THEN "false"
    ELSE IF sig.key = publicKey.key /\ sig.msg = message THEN "true"
    ELSE "false"

\* signEvent
signEvent(event, priv) == EncodeToString(ed25519Sign(priv, HashEvent(event)))

\* verifyEvent that only decodes the two strings
verifyEvent_NoSignatureCheck(event) ==
    IF DecodeString(event.AuthorPubKey).err THEN "invalid public key"
    ELSE IF DecodeString(event.Signature).err THEN "invalid signature"
    ELSE "nil"

\* verifyEvent: "nil", the error it returns, or "panic".
verifyEvent(event) ==
    LET pubKeyBytes == DecodeString(event.AuthorPubKey)
        signatureBytes == DecodeString(event.Signature)
        ok == ed25519Verify(pubKeyBytes.bytes, HashEvent(event), signatureBytes.bytes)
    IN IF pubKeyBytes.err THEN "invalid public key"
       ELSE IF signatureBytes.err THEN "invalid signature"
       ELSE IF ok = "panic" THEN "panic"
       ELSE IF ok = "false" THEN "signature verification failed"
       ELSE "nil"

\* ------------------------------------------------------------------- state
VARIABLES
    now,        \* the wall clock, in ticks
    events,     \* Blockchain.events: hash -> the Event its pointer leads to
    agents,     \* Blockchain.agents: public key string -> AgentInfo
    hand,       \* the Event object the caller holds and the store does not
    cur,        \* the caller's Event pointer
    last,       \* the last call made and what it returned
    call,       \* the GetEventChain call that is under way, step by step
    orig,       \* history: the event as CreateEvent returned it to the caller
    accepted,   \* history: payloads of the untouched CreateEvent events AddEvent took
    iter,       \* the loop counter of a caller that creates and adds in a loop
    pc,         \* concurrent callers: where each goroutine is in its call
    mu,         \* Blockchain.mu: the writer that holds it, the readers that hold it
    loc,        \* concurrent callers: the arguments and locals of each call
    abs,        \* history: the maps with every AddEvent applied in one step
    lastEvent,  \* Agent.lastEvent: the hash of the event the agent added last, or NoHash
    nAdded      \* history: the number of events the agent has added

concVars == <<pc, mu, loc, abs>>

agentVars == <<lastEvent, nAdded>>

vars == <<now, events, agents, hand, cur, last, call, orig, accepted, iter, concVars,
          agentVars>>

\* The goroutines that call the store at the same time.
Procs == {"p1", "p2"}

NoEvent == [nil |-> TRUE]
NoCall == [active |-> FALSE]
NoOrig == [event |-> NoEvent, matching |-> FALSE]
NoLocal == [op |-> "none"]

\* The empty string where a hash is held (Agent.lastEvent before the first event).
NoHash == [empty |-> TRUE]

\* Pointers: nil, to the object in the caller's hand, to the object stored
\* under a key.
NilPtr == [at |-> "nil"]
HandPtr == [at |-> "hand"]
StoredPtr(hash) == [at |-> "events", key |-> hash]

\* *p
Deref(p) == IF p.at = "hand" THEN hand ELSE events[p.key]

\* time.Now().UTC().Format(time.RFC3339): the time cut to whole seconds.
FormatRFC3339(t) == t \div TicksPerSec

\* New
Init ==
    /\ now = 0
    /\ events = [h \in {} |-> NoEvent]
    /\ agents = [k \in {} |-> NoEvent]
    /\ hand = NoEvent
    /\ cur = NilPtr
    /\ last = [op |-> "New"]
    /\ call = NoCall
    /\ orig = NoOrig
    /\ accepted = {}
    /\ iter = 0
    /\ pc = [p \in Procs |-> "idle"]
    /\ mu = [w |-> "none", r |-> {}]
    /\ loc = [p \in Procs |-> NoLocal]
    /\ abs = [events |-> [h \in {} |-> NoEvent], agents |-> [k \in {} |-> NoEvent]]
    /\ lastEvent = NoHash
    /\ nAdded = 0

\* The clock moves on.
Tick ==
    /\ now < MaxTime
    /\ now' = now + 1
    /\ UNCHANGED <<events, agents, hand, cur, last, call, orig, accepted, iter, agentVars, concVars>>

\* CreateEvent that enters the author in agents
CreateEvent_RegistersAuthor(eventType, description, payload, parents, pub, priv) ==
    /\ LET unsigned == [Data |-> [Type |-> eventType,
                                  Description |-> description,
                                  Payload |-> payload,
                                  Timestamp |-> FormatRFC3339(now)],
                        Parents |-> parents,
                        Signature |-> EncodeToString(<<>>),
                        AuthorPubKey |-> EncodeToString(pub)]
           event == [unsigned EXCEPT !.Signature = signEvent(unsigned, priv)]
       IN /\ hand' = event
          /\ cur' = HandPtr
          /\ orig' = [event |-> event, matching |-> (pub.key = priv.key)]
          /\ last' = [op |-> "CreateEvent", ret |-> "nil"]
          /\ agents' = Put(agents, event.AuthorPubKey,
                           [PubKey |-> event.AuthorPubKey,
                            LastEventHash |-> HashEvent(event),
                            LastSeen |-> now])
    /\ UNCHANGED <<now, events, call, accepted, iter, agentVars, concVars>>

\* CreateEvent.  The caller lets go of the pointer it held before.
CreateEvent(eventType, description, payload, parents, pub, priv) ==
    /\ LET unsigned == [Data |-> [Type |-> eventType,
                                  Description |-> description,
                                  Payload |-> payload,
                                  Timestamp |-> FormatRFC3339(now)],
                        Parents |-> parents,
                        Signature |-> EncodeToString(<<>>),
                        AuthorPubKey |-> EncodeToString(pub)]
           event == [unsigned EXCEPT !.Signature = signEvent(unsigned, priv)]
       IN /\ hand' = event
          /\ cur' = HandPtr
          /\ orig' = [event |-> event, matching |-> (pub.key = priv.key)]
          /\ last' = [op |-> "CreateEvent", ret |-> "nil"]
    /\ UNCHANGED <<now, events, agents, call, accepted, iter, agentVars, concVars>>

\* AddEvent that stores the event before it verifies it
AddEvent_StoreFirst(event) ==
    /\ event.at # "nil"
    /\ LET e == Deref(event)
           err == verifyEvent(e)
           hash == HashEvent(e)
       IN /\ events' = Put(events, hash, e)
          /\ hand' = IF event.at = "hand" THEN NoEvent ELSE hand
          /\ cur' = IF cur = event THEN StoredPtr(hash) ELSE cur
          /\ IF err = "nil"
             THEN /\ agents' = Put(agents, e.AuthorPubKey,
                                   [PubKey |-> e.AuthorPubKey,
                                    LastEventHash |-> hash,
                                    LastSeen |-> now])
                  /\ accepted' = IF orig.matching /\ e = orig.event
                                 THEN accepted \cup {e.Data} ELSE accepted
             ELSE UNCHANGED <<agents, accepted>>
          /\ last' = [op |-> "AddEvent", arg |-> e, ret |-> err]
    /\ UNCHANGED <<now, call, orig, iter, agentVars, concVars>>

\* AddEvent that keeps the AgentInfo an author already has
AddEvent_KeepsAgentInfo(event) ==
    /\ event.at # "nil"
    /\ LET e == Deref(event)
           err == verifyEvent(e)
           hash == HashEvent(e)
       IN /\ IF err = "nil"
             THEN /\ events' = Put(events, hash, e)
                  /\ agents' = IF e.AuthorPubKey \in DOMAIN agents THEN agents
                               ELSE Put(agents, e.AuthorPubKey,
                                        [PubKey |-> e.AuthorPubKey,
                                         LastEventHash |-> hash,
                                         LastSeen |-> now])
                  /\ hand' = IF event.at = "hand" THEN NoEvent ELSE hand
                  /\ cur' = IF cur = event THEN StoredPtr(hash) ELSE cur
                  /\ accepted' = IF orig.matching /\ e = orig.event
                                 THEN accepted \cup {e.Data} ELSE accepted
             ELSE UNCHANGED <<events, agents, hand, cur, accepted>>
          /\ last' = [op |-> "AddEvent", arg |-> e, ret |-> err]
    /\ UNCHANGED <<now, call, orig, iter, agentVars, concVars>>

\* AddEvent that makes a new agents map holding the author alone
AddEvent_NewAgentsMap(event) ==
    /\ event.at # "nil"
    /\ LET e == Deref(event)
           err == verifyEvent(e)
           hash == HashEvent(e)
       IN /\ IF err = "nil"
             THEN /\ events' = Put(events, hash, e)
                  /\ agents' = [k \in {e.AuthorPubKey} |->
                                   [PubKey |-> e.AuthorPubKey,
                                    LastEventHash |-> hash,
                                    LastSeen |-> now]]
                  /\ hand' = IF event.at = "hand" THEN NoEvent ELSE hand
                  /\ cur' = IF cur = event THEN StoredPtr(hash) ELSE cur
                  /\ accepted' = IF orig.matching /\ e = orig.event
                                 THEN accepted \cup {e.Data} ELSE accepted
             ELSE UNCHANGED <<events, agents, hand, cur, accepted>>
          /\ last' = [op |-> "AddEvent", arg |-> e, ret |-> err]
    /\ UNCHANGED <<now, call, orig, iter, agentVars, concVars>>

\* AddEvent that leaves the event already stored under the hash in place
AddEvent_KeepsStored(event) ==
    /\ event.at # "nil"
    /\ LET e == Deref(event)
           err == verifyEvent(e)
           hash == HashEvent(e)
       IN /\ IF err = "nil"
             THEN /\ events' = IF hash \in DOMAIN events THEN events
                               ELSE Put(events, hash, e)
                  /\ agents' = Put(agents, e.AuthorPubKey,
                                   [PubKey |-> e.AuthorPubKey,
                                    LastEventHash |-> hash,
                                    LastSeen |-> now])
                  /\ hand' = IF event.at = "hand" THEN NoEvent ELSE hand
                  /\ cur' = IF cur = event THEN StoredPtr(hash) ELSE cur
                  /\ accepted' = IF orig.matching /\ e = orig.event
                                 THEN accepted \cup {e.Data} ELSE accepted
             ELSE UNCHANGED <<events, agents, hand, cur, accepted>>
          /\ last' = [op |-> "AddEvent", arg |-> e, ret |-> err]
    /\ UNCHANGED <<now, call, orig, iter, agentVars, concVars>>

\* AddEvent that registers the author and does not store the event
AddEvent_SkipsEventsMap(event) ==
    /\ event.at # "nil"
    /\ LET e == Deref(event)
           err == verifyEvent(e)
           hash == HashEvent(e)
       IN /\ IF err = "nil"
             THEN /\ events' = events
                  /\ agents' = Put(agents, e.AuthorPubKey,
                                   [PubKey |-> e.AuthorPubKey,
                                    LastEventHash |-> hash,
                                    LastSeen |-> now])
                  /\ hand' = IF event.at = "hand" THEN NoEvent ELSE hand
                  /\ cur' = IF cur = event THEN StoredPtr(hash) ELSE cur
                  /\ accepted' = IF orig.matching /\ e = orig.event
                                 THEN accepted \cup {e.Data} ELSE accepted
             ELSE UNCHANGED <<events, agents, hand, cur, accepted>>
          /\ last' = [op |-> "AddEvent", arg |-> e, ret |-> err]
    /\ UNCHANGED <<now, call, orig, iter, agentVars, concVars>>

\* AddEvent(event), event a pointer: the whole call, under the write lock.  The
\* object is in events from then on, and the caller's pointer leads there.
AddEvent(event) ==
    /\ event.at # "nil"
    /\ LET e == Deref(event)
           err == verifyEvent(e)
           hash == HashEvent(e)
       IN /\ IF err = "nil"
             THEN /\ events' = Put(events, hash, e)
                  /\ agents' = Put(agents, e.AuthorPubKey,
                                   [PubKey |-> e.AuthorPubKey,
                                    LastEventHash |-> hash,
                                    LastSeen |-> now])
                  /\ hand' = IF event.at = "hand" THEN NoEvent ELSE hand
                  /\ cur' = IF cur = event THEN StoredPtr(hash) ELSE cur
                  /\ accepted' = IF orig.matching /\ e = orig.event
                                 THEN accepted \cup {e.Data} ELSE accepted
             ELSE UNCHANGED <<events, agents, hand, cur, accepted>>
          /\ last' = [op |-> "AddEvent", arg |-> e, ret |-> err]
    /\ UNCHANGED <<now, call, orig, iter, agentVars, concVars>>

\* GetEvent(hash): the pointer stored under hash and whether there is one.
GetEvent(hash) ==
    /\ last' = [op |-> "GetEvent", arg |-> hash,
                ret |-> IF hash \in DOMAIN events THEN StoredPtr(hash) ELSE NilPtr,
                exists |-> hash \in DOMAIN events]
    /\ UNCHANGED <<now, events, agents, hand, cur, call, orig, accepted, iter, agentVars, concVars>>

\* GetAgents: a new map with the entries of agents.
GetAgents ==
    /\ last' = [op |-> "GetAgents", ret |-> [k \in DOMAIN agents |-> agents[k]]]
    /\ UNCHANGED <<now, events, agents, hand, cur, call, orig, accepted, iter, agentVars, concVars>>

\* traverse without the visited set: only the depth stops it
RECURSIVE traverse_NoVisited(_, _, _, _, _)
traverse_NoVisited(ev, h, depth, maxDepth, st) ==
    IF depth >= maxDepth \/ h \notin DOMAIN ev THEN st
    ELSE LET RECURSIVE parentsFrom(_, _)
             parentsFrom(i, s) ==
                 IF i > Len(ev[h].Parents) THEN s
                 ELSE parentsFrom(i + 1,
                        traverse_NoVisited(ev, ev[h].Parents[i], depth + 1, maxDepth, s))
         IN parentsFrom(1, [chain |-> Append(st.chain, StoredPtr(h)),
                            visited |-> st.visited \cup {h}])

\* traverse that leaves the parents of an event at the first one not stored
RECURSIVE traverse_StopsAtUnstored(_, _, _, _, _)
traverse_StopsAtUnstored(ev, h, depth, maxDepth, st) ==
    IF depth >= maxDepth \/ h \in st.visited THEN st
    ELSE IF h \notin DOMAIN ev THEN st
    ELSE LET RECURSIVE parentsFrom(_, _)
             parentsFrom(i, s) ==
                 IF i > Len(ev[h].Parents) \/ ev[h].Parents[i] \notin DOMAIN ev THEN s
                 ELSE parentsFrom(i + 1,
                        traverse_StopsAtUnstored(ev, ev[h].Parents[i], depth + 1,
                                                 maxDepth, s))
         IN parentsFrom(1, [chain |-> Append(st.chain, StoredPtr(h)),
                            visited |-> st.visited \cup {h}])

\* The closure traverse of GetEventChain, from hash h at depth, over the map ev;
\* st holds chain and visited, and the result is st after the call.
RECURSIVE traverse(_, _, _, _, _)
traverse(ev, h, depth, maxDepth, st) ==
    IF depth >= maxDepth \/ h \in st.visited THEN st
    ELSE IF h \notin DOMAIN ev THEN st
    ELSE LET RECURSIVE parentsFrom(_, _)
             parentsFrom(i, s) ==
                 IF i > Len(ev[h].Parents) THEN s
                 ELSE parentsFrom(i + 1,
                        traverse(ev, ev[h].Parents[i], depth + 1, maxDepth, s))
         IN parentsFrom(1, [chain |-> Append(st.chain, StoredPtr(h)),
                            visited |-> st.visited \cup {h}])

\* GetEventChain whose traversal starts at depth 1
GetEventChainResult_DepthFromOne(ev, hash, maxDepth) ==
    traverse(ev, hash, 1, maxDepth, [chain |-> <<>>, visited |-> {}]).chain

\* What GetEventChain(hash, maxDepth) returns over the map ev.
GetEventChainResult(ev, hash, maxDepth) ==
    traverse(ev, hash, 0, maxDepth, [chain |-> <<>>, visited |-> {}]).chain

\* GetEventChain(hash, maxDepth): the whole call, under the read lock.
GetEventChain(hash, maxDepth) ==
    /\ last' = [op |-> "GetEventChain", arg |-> hash, maxDepth |-> maxDepth,
                ret |-> GetEventChainResult(events, hash, maxDepth)]
    /\ UNCHANGED <<now, events, agents, hand, cur, call, orig, accepted, iter, agentVars, concVars>>

\* The orders in which a range over the map ev may meet its keys: any.
IterationOrders(ev) ==
    {s \in [1..Cardinality(DOMAIN ev) -> DOMAIN ev] :
        \A i \in DOMAIN s, j \in DOMAIN s : s[i] = s[j] => i = j}

\* GetRecentEvents that cuts the slice one place too late
GetRecentEventsResult_OffByOne(order, limit) ==
    LET all == [i \in DOMAIN order |-> StoredPtr(order[i])]
    IN IF Len(all) > limit
       THEN IF limit < 0
            THEN [panic |-> TRUE, events |-> <<>>]
            ELSE [panic |-> FALSE,
                  events |-> SubSeq(all, Len(all) - limit + 2, Len(all))]
       ELSE [panic |-> FALSE, events |-> all]

\* What GetRecentEvents(limit) returns when the range over events met the keys
\* in this order: the last limit pointers of the slice, all of them if there are
\* no more than limit; events[len(events)-limit:] panics when limit is below 0.
GetRecentEventsResult(order, limit) ==
    LET all == [i \in DOMAIN order |-> StoredPtr(order[i])]
    IN IF Len(all) > limit
       THEN IF limit < 0
            THEN [panic |-> TRUE, events |-> <<>>]
            ELSE [panic |-> FALSE,
                  events |-> SubSeq(all, Len(all) - limit + 1, Len(all))]
       ELSE [panic |-> FALSE, events |-> all]

\* GetRecentEvents(limit): the whole call, under the read lock.
GetRecentEvents(limit) ==
    /\ \E order \in IterationOrders(events) :
          LET r == GetRecentEventsResult(order, limit)
          IN last' = [op |-> "GetRecentEvents", arg |-> limit,
                      ret |-> r.events, panic |-> r.panic]
    /\ UNCHANGED <<now, events, agents, hand, cur, call, orig, accepted, iter, agentVars, concVars>>

\* GetEventChain step by step.  A frame of the stack is one call of traverse:
\* the hash, the depth, and the parent it is at (0 before its checks).
\* The call takes the read lock and starts traverse(hash, 0).
ChainCall(hash, maxDepth) ==
    /\ ~call.active
    /\ call' = [active |-> TRUE, hash |-> hash, maxDepth |-> maxDepth,
                stack |-> <<[h |-> hash, depth |-> 0, i |-> 0]>>,
                chain |-> <<>>, visited |-> {}, steps |-> 0]
    /\ UNCHANGED <<now, events, agents, hand, cur, last, orig, accepted, iter, agentVars, concVars>>

\* A step of traverse without its checks of depth and of visited
ChainStep_NoGuards ==
    /\ call.active
    /\ call.stack # <<>>
    /\ LET n == Len(call.stack)
           f == call.stack[n]
           rest == SubSeq(call.stack, 1, n - 1)
       IN call' =
            IF f.i = 0
            THEN IF f.h \notin DOMAIN events
                 THEN [call EXCEPT !.stack = rest, !.steps = @ + 1]
                 ELSE [call EXCEPT !.stack = Append(rest, [f EXCEPT !.i = 1]),
                                   !.visited = @ \cup {f.h},
                                   !.chain = Append(@, StoredPtr(f.h)),
                                   !.steps = @ + 1]
            ELSE IF f.i > Len(events[f.h].Parents)
                 THEN [call EXCEPT !.stack = rest, !.steps = @ + 1]
                 ELSE [call EXCEPT
                          !.stack = Append(Append(rest, [f EXCEPT !.i = @ + 1]),
                                           [h |-> events[f.h].Parents[f.i],
                                            depth |-> f.depth + 1, i |-> 0]),
                          !.steps = @ + 1]
    /\ UNCHANGED <<now, events, agents, hand, cur, last, orig, accepted, iter, agentVars, concVars>>

\* One step of the innermost call of traverse: its checks on entry, the call
\* for its next parent, or its return.
ChainStep ==
    /\ call.active
    /\ call.stack # <<>>
    /\ LET n == Len(call.stack)
           f == call.stack[n]
           rest == SubSeq(call.stack, 1, n - 1)
       IN call' =
            IF f.i = 0
            THEN IF f.depth >= call.maxDepth \/ f.h \in call.visited
                    \/ f.h \notin DOMAIN events
                 THEN [call EXCEPT !.stack = rest, !.steps = @ + 1]
                 ELSE [call EXCEPT !.stack = Append(rest, [f EXCEPT !.i = 1]),
                                   !.visited = @ \cup {f.h},
                                   !.chain = Append(@, StoredPtr(f.h)),
                                   !.steps = @ + 1]
            ELSE IF f.i > Len(events[f.h].Parents)
                 THEN [call EXCEPT !.stack = rest, !.steps = @ + 1]
                 ELSE [call EXCEPT
                          !.stack = Append(Append(rest, [f EXCEPT !.i = @ + 1]),
                                           [h |-> events[f.h].Parents[f.i],
                                            depth |-> f.depth + 1, i |-> 0]),
                          !.steps = @ + 1]
    /\ UNCHANGED <<now, events, agents, hand, cur, last, orig, accepted, iter, agentVars, concVars>>

\* traverse(hash, 0) has returned: GetEventChain returns chain and gives up
\* the read lock.
ChainReturn ==
    /\ call.active
    /\ call.stack = <<>>
    /\ last' = [op |-> "GetEventChain", arg |-> call.hash, maxDepth |-> call.maxDepth,
                ret |-> call.chain]
    /\ call' = NoCall
    /\ UNCHANGED <<now, events, agents, hand, cur, orig, accepted, iter, agentVars, concVars>>

\* ------------------------------------------------- concurrent callers
\* Goroutines call a shared store.  pc[p] is the statement goroutine p is at,
\* loc[p] the arguments and local variables of its call, mu the RWMutex.  Each
\* statement that touches mu or a map is a step of its own.

\* The event CreateEvent makes at time t (CreateEvent touches nothing shared).
NewEvent(eventType, description, payload, parents, pub, priv, t) ==
    LET unsigned == [Data |-> [Type |-> eventType,
                               Description |-> description,
                               Payload |-> payload,
                               Timestamp |-> FormatRFC3339(t)],
                     Parents |-> parents,
                     Signature |-> EncodeToString(<<>>),
                     AuthorPubKey |-> EncodeToString(pub)]
    IN [unsigned EXCEPT !.Signature = signEvent(unsigned, priv)]

\* p calls an operation c of the store: it comes to the Lock or RLock.
Call(p, c) ==
    /\ pc[p] = "idle"
    /\ loc' = [loc EXCEPT ![p] = c]
    /\ pc' = [pc EXCEPT ![p] = IF c.op = "AddEvent" THEN "Lock" ELSE "RLock"]
    /\ UNCHANGED <<now, events, agents, hand, cur, last, call, orig, accepted, iter, agentVars,
                   mu, abs>>

\* bc.mu.Lock() that takes the lock as a reader does
Lock_AsRLock(p) ==
    /\ pc[p] = "Lock"
    /\ mu.w = "none"
    /\ mu' = [mu EXCEPT !.r = @ \cup {p}]
    /\ pc' = [pc EXCEPT ![p] = "verify"]
    /\ UNCHANGED <<now, events, agents, hand, cur, last, call, orig, accepted, iter, agentVars,
                   loc, abs>>

\* bc.mu.Lock() that does not wait for the readers to leave
Lock_IgnoresReaders(p) ==
    /\ pc[p] = "Lock"
    /\ mu.w = "none"
    /\ mu' = [mu EXCEPT !.w = p]
    /\ pc' = [pc EXCEPT ![p] = "verify"]
    /\ UNCHANGED <<now, events, agents, hand, cur, last, call, orig, accepted, iter, agentVars,
                   loc, abs>>

\* bc.mu.Lock() in AddEvent: waits until no writer and no reader holds mu.
Lock(p) ==
    /\ pc[p] = "Lock"
    /\ mu.w = "none"
    /\ mu.r = {}
    /\ mu' = [mu EXCEPT !.w = p]
    /\ pc' = [pc EXCEPT ![p] = "verify"]
    /\ UNCHANGED <<now, events, agents, hand, cur, last, call, orig, accepted, iter, agentVars,
                   loc, abs>>

\* bc.mu.RLock() that does not wait for the writer to leave
RLock_IgnoresWriter(p) ==
    /\ pc[p] = "RLock"
    /\ mu' = [mu EXCEPT !.r = @ \cup {p}]
    /\ pc' = [pc EXCEPT ![p] = IF loc[p].op = "GetEventChain" THEN "make" ELSE "read"]
    /\ UNCHANGED <<now, events, agents, hand, cur, last, call, orig, accepted, iter, agentVars,
                   loc, abs>>

\* bc.mu.RLock() in the four read operations: waits until no writer holds mu.
RLock(p) ==
    /\ pc[p] = "RLock"
    /\ mu.w = "none"
    /\ mu' = [mu EXCEPT !.r = @ \cup {p}]
    /\ pc' = [pc EXCEPT ![p] = IF loc[p].op = "GetEventChain" THEN "make" ELSE "read"]
    /\ UNCHANGED <<now, events, agents, hand, cur, last, call, orig, accepted, iter, agentVars,
                   loc, abs>>

\* AddEvent: verifyEvent(event).  An error goes to the return, a panic of
\* ed25519.Verify to the deferred Unlock with the panic under way.
AddVerify(p) ==
    /\ pc[p] = "verify"
    /\ LET err == verifyEvent(loc[p].event)
       IN IF err = "nil"
          THEN /\ pc' = [pc EXCEPT ![p] = "events"]
               /\ loc' = loc
          ELSE IF err = "panic"
          THEN /\ pc' = [pc EXCEPT ![p] = "panic"]
               /\ loc' = loc
          ELSE /\ pc' = [pc EXCEPT ![p] = "Unlock"]
               /\ loc' = [loc EXCEPT ![p] = [op |-> "AddEvent", event |-> @.event,
                                             ret |-> err]]
    /\ UNCHANGED <<now, events, agents, hand, cur, last, call, orig, accepted, iter, agentVars,
                   mu, abs>>

\* AddEvent: bc.events[hash] = event.  In abs the whole AddEvent happens here.
AddStoreEvent(p) ==
    /\ pc[p] = "events"
    /\ LET e == loc[p].event
           hash == HashEvent(e)
           info == [PubKey |-> e.AuthorPubKey, LastEventHash |-> hash, LastSeen |-> now]
       IN /\ events' = Put(events, hash, e)
          /\ abs' = [events |-> Put(abs.events, hash, e),
                     agents |-> Put(abs.agents, e.AuthorPubKey, info)]
    /\ pc' = [pc EXCEPT ![p] = "agents"]
    /\ UNCHANGED <<now, agents, hand, cur, last, call, orig, accepted, iter, agentVars, mu, loc>>

\* AddEvent: bc.agents[event.AuthorPubKey] = &AgentInfo{...}, and return nil.
AddStoreAgent(p) ==
    /\ pc[p] = "agents"
    /\ LET e == loc[p].event
       IN agents' = Put(agents, e.AuthorPubKey,
                        [PubKey |-> e.AuthorPubKey,
                         LastEventHash |-> HashEvent(e),
                         LastSeen |-> now])
    /\ pc' = [pc EXCEPT ![p] = "Unlock"]
    /\ loc' = [loc EXCEPT ![p] = [op |-> "AddEvent", event |-> @.event, ret |-> "nil"]]
    /\ UNCHANGED <<now, events, hand, cur, last, call, orig, accepted, iter, agentVars, mu, abs>>

\* The deferred bc.mu.Unlock() of AddEvent; the call has returned, or the panic
\* goes on to the caller and the goroutine is over.
Unlock(p) ==
    /\ pc[p] \in {"Unlock", "panic"}
    /\ mu' = [w |-> IF mu.w = p THEN "none" ELSE mu.w, r |-> mu.r \ {p}]
    /\ pc' = [pc EXCEPT ![p] = IF pc[p] = "panic" THEN "panicked" ELSE "idle"]
    /\ loc' = [loc EXCEPT ![p] = NoLocal]
    /\ UNCHANGED <<now, events, agents, hand, cur, last, call, orig, accepted, iter, agentVars,
                   abs>>

\* The body of GetEvent, GetAgents or GetRecentEvents: one read of a map.
Read(p) ==
    /\ pc[p] = "read"
    /\ \E order \in IterationOrders(events) :
          LET c == loc[p]
              r == IF c.op = "GetEvent"
                   THEN [ptr |-> IF c.hash \in DOMAIN events
                                 THEN StoredPtr(c.hash) ELSE NilPtr,
                         exists |-> c.hash \in DOMAIN events]
                   ELSE IF c.op = "GetAgents"
                   THEN [k \in DOMAIN agents |-> agents[k]]
                   ELSE GetRecentEventsResult(order, c.limit).events
          IN loc' = [loc EXCEPT ![p] = [op |-> c.op, ret |-> r]]
    /\ pc' = [pc EXCEPT ![p] = "RUnlock"]
    /\ UNCHANGED <<now, events, agents, hand, cur, last, call, orig, accepted, iter, agentVars,
                   mu, abs>>

\* GetEventChain: chain and visited are made and traverse(hash, 0) is called.
\* snap is history: events as it is now.
ChainMake(p) ==
    /\ pc[p] = "make"
    /\ loc' = [loc EXCEPT ![p] =
                  [op |-> "GetEventChain", hash |-> @.hash, maxDepth |-> @.maxDepth,
                   stack |-> <<[h |-> @.hash, depth |-> 0, i |-> 0]>>,
                   chain |-> <<>>, visited |-> {}, snap |-> events]]
    /\ pc' = [pc EXCEPT ![p] = "traverse"]
    /\ UNCHANGED <<now, events, agents, hand, cur, last, call, orig, accepted, iter, agentVars,
                   mu, abs>>

\* GetEventChain: one step of the innermost call of traverse, as ChainStep, the
\* frame holding the Parents of the event the call read from the map; when the
\* first call has returned, the chain is returned.
Traverse(p) ==
    /\ pc[p] = "traverse"
    /\ LET c == loc[p]
           n == Len(c.stack)
           f == c.stack[n]
           rest == SubSeq(c.stack, 1, n - 1)
       IN IF c.stack = <<>>
          THEN /\ pc' = [pc EXCEPT ![p] = "RUnlock"]
               /\ loc' = loc
          ELSE /\ pc' = pc
               /\ loc' = [loc EXCEPT ![p] =
                    IF f.i = 0
                    THEN IF f.depth >= c.maxDepth \/ f.h \in c.visited
                            \/ f.h \notin DOMAIN events
                         THEN [c EXCEPT !.stack = rest]
                         ELSE [c EXCEPT
                                 !.stack = Append(rest,
                                              [h |-> f.h, depth |-> f.depth, i |-> 1,
                                               parents |-> events[f.h].Parents]),
                                 !.visited = @ \cup {f.h},
                                 !.chain = Append(@, StoredPtr(f.h))]
                    ELSE IF f.i > Len(f.parents)
                         THEN [c EXCEPT !.stack = rest]
                         ELSE [c EXCEPT
                                 !.stack = Append(Append(rest, [f EXCEPT !.i = @ + 1]),
                                                  [h |-> f.parents[f.i],
                                                   depth |-> f.depth + 1, i |-> 0])]]
    /\ UNCHANGED <<now, events, agents, hand, cur, last, call, orig, accepted, iter, agentVars,
                   mu, abs>>

\* The deferred bc.mu.RUnlock() of a read operation; the call has returned.
RUnlock(p) ==
    /\ pc[p] = "RUnlock"
    /\ mu' = [mu EXCEPT !.r = @ \ {p}]
    /\ pc' = [pc EXCEPT ![p] = "idle"]
    /\ loc' = [loc EXCEPT ![p] = NoLocal]
    /\ UNCHANGED <<now, events, agents, hand, cur, last, call, orig, accepted, iter, agentVars,
                   abs>>

\* --------------------------------------------------- what callers may do
\* The i++ of a caller's loop whose body is CreateEvent and then AddEvent, the
\* result of AddEvent left unread.
LoopIncrement ==
    /\ last.op = "AddEvent"
    /\ iter' = iter + 1
    /\ last' = [op |-> "i++"]
    /\ UNCHANGED <<now, events, agents, hand, cur, call, orig, accepted, concVars,
                   agentVars>>

\* The caller keeps the pointer GetEvent returned.
KeepReturned ==
    /\ last.op = "GetEvent"
    /\ last.exists
    /\ cur # HandPtr
    /\ cur' = last.ret
    /\ last' = [op |-> "Keep"]
    /\ UNCHANGED <<now, events, agents, hand, call, orig, accepted, iter, agentVars, concVars>>

\* The caller writes event.Data.Description = d through a pointer to an Event
\* the store holds: the one it gave AddEvent or the one GetEvent returned, which
\* is the pointer in events.
WriteEvent(d) ==
    /\ cur.at = "events"
    /\ events[cur.key].Data.Description # d
    /\ events' = [events EXCEPT ![cur.key].Data.Description = d]
    /\ last' = [op |-> "Write"]
    /\ UNCHANGED <<now, agents, hand, cur, call, orig, accepted, iter, agentVars, concVars>>

\* The caller writes info.LastEventHash = h through a value of the map GetAgents
\* has just returned: the map is new, its values are the pointers in agents.
WriteAgentInfo(k, h) ==
    /\ last.op = "GetAgents"
    /\ k \in DOMAIN last.ret
    /\ agents[k].LastEventHash # h
    /\ agents' = [agents EXCEPT ![k].LastEventHash = h]
    /\ last' = [op |-> "Write"]
    /\ UNCHANGED <<now, events, hand, cur, call, orig, accepted, iter, agentVars, concVars>>

\* Strings a caller may write into an event in place of a hex string: one that
\* is not hex, and the hex of two bytes.
NotHex == [valid |-> FALSE, bytes |-> [len |-> 0, key |-> "none", msg |-> <<>>]]
ShortHex == EncodeToString([len |-> 2, key |-> "none", msg |-> <<>>])

\* The events that differ from e in one field.
Tampered(e) ==
    LET sig == DecodeString(e.Signature).bytes
    IN {[e EXCEPT !.Data.Type = t] : t \in Types}
       \cup {[e EXCEPT !.Data.Description = d] : d \in Descs}
       \cup {[e EXCEPT !.Data.Payload = m] : m \in Maps}
       \cup {[e EXCEPT !.Data.Timestamp = t] : t \in 0..FormatRFC3339(MaxTime)}
       \cup {[e EXCEPT !.AuthorPubKey = EncodeToString(PublicKey(k))] : k \in Keys}
       \cup {[e EXCEPT !.AuthorPubKey = s] : s \in {NotHex, ShortHex}}
       \cup {[e EXCEPT !.Signature = EncodeToString([sig EXCEPT !.key = k])] : k \in Keys}
       \cup {[e EXCEPT !.Signature = s] : s \in {NotHex, ShortHex}}

\* The caller changes one field of the event CreateEvent gave it, before it
\* hands it to AddEvent (TestEventVerification).
Tamper(e) ==
    /\ cur = HandPtr
    /\ hand = orig.event
    /\ e \in Tampered(hand)
    /\ e # hand
    /\ hand' = e
    /\ last' = [op |-> "Tamper"]
    /\ UNCHANGED <<now, cur, events, agents, call, orig, accepted, iter, agentVars, concVars>>

\* The caller gives the event CreateEvent gave it another list of parents,
\* before it hands it to AddEvent.
Reparent(parents) ==
    /\ cur = HandPtr
    /\ parents # hand.Parents
    /\ hand' = [hand EXCEPT !.Parents = parents]
    /\ last' = [op |-> "Reparent"]
    /\ UNCHANGED <<now, cur, events, agents, call, orig, accepted, iter, agentVars, concVars>>

\* ------------------------------------------------------------------ agent
\* One agent with the key pair K1 on the store.  PublicKeyHex()[:16], the
\* agent_id of its payloads, is written "K1".
AgentId == <<75, 49>>

\* "agent_id", "state", "active", "version", "1.0.0", "action", "llm_decision"
StrAgentId == <<97, 103, 101, 110, 116, 95, 105, 100>>
StrState == <<115, 116, 97, 116, 101>>
StrActive == <<97, 99, 116, 105, 118, 101>>
StrVersion == <<118, 101, 114, 115, 105, 111, 110>>
StrVersion100 == <<49, 46, 48, 46, 48>>
StrAction == <<97, 99, 116, 105, 111, 110>>
StrLLMDecision == <<108, 108, 109, 95, 100, 101, 99, 105, 115, 105, 111, 110>>

\* The payload of the initial event and of a decision event.
InitialPayload ==
    [k \in {StrAgentId, StrState, StrVersion} |->
        IF k = StrAgentId THEN AgentId ELSE IF k = StrState THEN StrActive
        ELSE StrVersion100]

DecisionPayload ==
    [k \in {StrAgentId, StrAction} |-> IF k = StrAgentId THEN AgentId ELSE StrLLMDecision]

\* What llmClient.GetCompletion returns: an error, or one of two texts.
DescB == <<98>>
Completions ==
    {[err |-> TRUE, decision |-> <<>>]} \cup
    {[err |-> FALSE, decision |-> d] : d \in {DescA, DescB}}

\* What blockchain.AddEvent(event) called by the agent does to the store; the
\* error it returns is verifyEvent(event).
AgentAddEvent(event) ==
    IF verifyEvent(event) = "nil"
    THEN /\ events' = Put(events, HashEvent(event), event)
         /\ agents' = Put(agents, event.AuthorPubKey,
                          [PubKey |-> event.AuthorPubKey,
                           LastEventHash |-> HashEvent(event),
                           LastSeen |-> now])
         /\ lastEvent' = HashEvent(event)
         /\ nAdded' = nAdded + 1
    ELSE UNCHANGED <<events, agents, lastEvent, nAdded>>

\* CreateInitialEvent: CreateEvent, AddEvent, and lastEvent set when both
\* returned no error.
CreateInitialEvent ==
    /\ LET event == NewEvent(StrInit, DescA, InitialPayload, <<>>,
                             PublicKey("K1"), PrivateKey("K1"), now)
       IN /\ AgentAddEvent(event)
          /\ last' = [op |-> "CreateInitialEvent",
                      ret |-> IF verifyEvent(event) = "nil" THEN "nil"
                              ELSE "failed to add initial event"]
    /\ UNCHANGED <<now, hand, cur, call, orig, accepted, iter, concVars>>

\* MakeDecision that forgets lastEvent when the completion fails
MakeDecision_ForgetsLastEvent(completion) ==
    /\ IF completion.err
       THEN /\ last' = [op |-> "MakeDecision", ret |-> "failed to get LLM decision"]
            /\ lastEvent' = NoHash
            /\ UNCHANGED <<events, agents, nAdded>>
       ELSE LET parents == IF lastEvent # NoHash THEN <<lastEvent>> ELSE <<>>
                event == NewEvent(StrStateChange, completion.decision, DecisionPayload,
                                  parents, PublicKey("K1"), PrivateKey("K1"), now)
            IN /\ AgentAddEvent(event)
               /\ last' = [op |-> "MakeDecision",
                           ret |-> IF verifyEvent(event) = "nil" THEN "nil"
                                   ELSE "failed to create decision event"]
    /\ UNCHANGED <<now, hand, cur, call, orig, accepted, iter, concVars>>

\* MakeDecision with what GetCompletion returned: buildPrompt reads the store
\* (GetRecentEvents(5), GetAgents) and changes nothing; on an error of the
\* completion the call returns; else createDecisionEvent makes an event whose
\* parents are lastEvent if there is one, adds it and sets lastEvent.
MakeDecision(completion) ==
    /\ IF completion.err
       THEN /\ last' = [op |-> "MakeDecision", ret |-> "failed to get LLM decision"]
            /\ UNCHANGED <<events, agents, lastEvent, nAdded>>
       ELSE LET parents == IF lastEvent # NoHash THEN <<lastEvent>> ELSE <<>>
                event == NewEvent(StrStateChange, completion.decision, DecisionPayload,
                                  parents, PublicKey("K1"), PrivateKey("K1"), now)
            IN /\ AgentAddEvent(event)
               /\ last' = [op |-> "MakeDecision",
                           ret |-> IF verifyEvent(event) = "nil" THEN "nil"
                                   ELSE "failed to create decision event"]
    /\ UNCHANGED <<now, hand, cur, call, orig, accepted, iter, concVars>>

\* What the caller may turn the event in its hand into.
TamperChoices ==
    IF cur # HandPtr \/ hand # orig.event THEN {} ELSE Tampered(hand)

\* Hashes a caller knows.
KnownHashes ==
    DOMAIN events
    \cup (IF cur = NilPtr THEN {} ELSE {HashEvent(Deref(cur)), HashEvent(orig.event)})

\* ------------------------------------------------------------ specification
\* Signing and verification: events of two key pairs, matching or not, and
\* every change of one field.  The caller reads the store when it holds no
\* event that it has yet to add: what a read returns does not depend on one.
Next ==
    \/ \E d \in {DescA, DescFF}, k \in {<<"K1", "K1">>, <<"K2", "K2">>, <<"K1", "K2">>} :
            CreateEvent(StrInit, d, EmptyMap, <<>>, PublicKey(k[1]), PrivateKey(k[2]))
    \/ \E e \in TamperChoices : Tamper(e)
    \/ AddEvent(cur)
    \/ cur # HandPtr /\ \E h \in KnownHashes : GetEvent(h)
    \/ cur # HandPtr /\ GetAgents

Spec == Init /\ [][Next]_vars

\* Chains: events of one key pair with three payloads, made within one second,
\* whose parents are any list of up to two of the three hashes.  The caller
\* adds each event it creates before it creates or reads anything else.
ChainPayloads == {<<StrInit, DescA>>, <<StrStateChange, DescA>>, <<StrStateChange, DescFF>>}

ChainHashes ==
    {HashEvent([Data |-> [Type |-> p[1], Description |-> p[2], Payload |-> EmptyMap,
                          Timestamp |-> FormatRFC3339(now)]]) : p \in ChainPayloads}

ParentLists(H) ==
    {<<>>} \cup {<<a>> : a \in H} \cup {<<x[1], x[2]>> : x \in {y \in H \X H : y[1] # y[2]}}

NextChain ==
    \/ cur # HandPtr /\ \E p \in ChainPayloads, par \in ParentLists(ChainHashes) :
            CreateEvent(p[1], p[2], EmptyMap, par, PublicKey("K1"), PrivateKey("K1"))
    \/ AddEvent(cur)
    \/ cur # HandPtr /\ \E h \in ChainHashes, d \in 0..MaxDepth : GetEventChain(h, d)

SpecChain == Init /\ [][NextChain]_vars

\* The traversal step by step: events of one key pair with two payloads, whose
\* parents are any list of up to two of the two hashes, a hash twice included.
\* Nothing else runs while the call holds the read lock.
StepPayloads == {<<StrInit, DescA>>, <<StrStateChange, DescA>>}

StepHashes ==
    {HashEvent([Data |-> [Type |-> p[1], Description |-> p[2], Payload |-> EmptyMap,
                          Timestamp |-> FormatRFC3339(now)]]) : p \in StepPayloads}

StepParentLists(H) == {<<>>} \cup {<<a>> : a \in H} \cup {<<x[1], x[2]>> : x \in H \X H}

NextSteps ==
    \/ ~call.active /\ cur # HandPtr
          /\ \E p \in StepPayloads, par \in StepParentLists(StepHashes) :
                CreateEvent(p[1], p[2], EmptyMap, par, PublicKey("K1"), PrivateKey("K1"))
    \/ ~call.active /\ AddEvent(cur)
    \/ cur # HandPtr /\ \E h \in StepHashes, d \in 0..MaxDepth : ChainCall(h, d)
    \/ ChainStep
    \/ ChainReturn

SpecSteps == Init /\ [][NextSteps]_vars

\* The recent events: events of one key pair with two descriptions, made while
\* the clock runs.
NextRecent ==
    \/ Tick
    \/ cur # HandPtr /\ \E d \in {DescA, DescFF} :
            CreateEvent(StrInit, d, EmptyMap, <<>>, PublicKey("K1"), PrivateKey("K1"))
    \/ AddEvent(cur)
    \/ cur # HandPtr /\ \E limit \in -1..MaxLimit : GetRecentEvents(limit)

SpecRecent == Init /\ [][NextRecent]_vars

\* A loop of CreateEvent and AddEvent with one key pair while the clock runs,
\* and GetRecentEvents between its turns and after it.
NextLoop ==
    \/ Tick
    \/ iter < MaxAdds /\ last.op \in {"New", "i++", "GetRecentEvents"}
          /\ \E d \in {DescA, DescFF} :
                CreateEvent(StrInit, d, EmptyMap, <<>>, PublicKey("K1"), PrivateKey("K1"))
    \/ last.op = "CreateEvent" /\ AddEvent(cur)
    \/ LoopIncrement
    \/ last.op \in {"i++", "GetRecentEvents"}
          /\ \E limit \in 1..MaxLimit : GetRecentEvents(limit)

SpecLoop == Init /\ [][NextLoop]_vars

\* One payload, two key pairs and two parent lists, while the clock runs: events
\* that differ in nothing the hash covers.
SameHashes ==
    {HashEvent([Data |-> [Type |-> StrInit, Description |-> DescA, Payload |-> EmptyMap,
                          Timestamp |-> t]]) : t \in 0..FormatRFC3339(MaxTime)}

NextSame ==
    \/ Tick
    \/ cur # HandPtr
          /\ \E k \in Keys, par \in {<<>>} \cup {<<h>> : h \in SameHashes} :
                CreateEvent(StrInit, DescA, EmptyMap, par, PublicKey(k), PrivateKey(k))
    \/ AddEvent(cur)
    \/ cur # HandPtr /\ \E h \in SameHashes : GetEvent(h)

SpecSame == Init /\ [][NextSame]_vars

\* A caller that writes through the pointers it holds: events of one key pair
\* with two descriptions.
AliasHashes ==
    {HashEvent([Data |-> [Type |-> StrInit, Description |-> d, Payload |-> EmptyMap,
                          Timestamp |-> FormatRFC3339(now)]]) : d \in {DescA, DescFF}}

NextAlias ==
    \/ cur # HandPtr /\ \E d \in {DescA, DescFF} :
            CreateEvent(StrInit, d, EmptyMap, <<>>, PublicKey("K1"), PrivateKey("K1"))
    \/ cur = HandPtr /\ AddEvent(cur)
    \/ cur # HandPtr /\ \E h \in AliasHashes : GetEvent(h)
    \/ KeepReturned
    \/ \E d \in {DescA, DescFF} : WriteEvent(d)
    \/ cur # HandPtr /\ GetAgents
    \/ \E k \in DOMAIN agents, h \in AliasHashes : WriteAgentInfo(k, h)

SpecAlias == Init /\ [][NextAlias]_vars

\* Concurrent callers: two goroutines, each calling any operation in turn.  The
\* events to add: one of K1, one of K2 with the same payload and a parent, one
\* of K1 with another description and a parent, so that parents make a cycle;
\* one signed with another key than its author's, and one whose author string
\* is the hex of two bytes.
ConcHashes ==
    {HashEvent([Data |-> [Type |-> StrInit, Description |-> d, Payload |-> EmptyMap,
                          Timestamp |-> FormatRFC3339(0)]]) : d \in {DescA, DescFF}}

ConcHash(d) ==
    HashEvent([Data |-> [Type |-> StrInit, Description |-> d, Payload |-> EmptyMap,
                         Timestamp |-> FormatRFC3339(0)]])

ConcEvents ==
    {NewEvent(StrInit, DescA, EmptyMap, <<>>, PublicKey("K1"), PrivateKey("K1"), 0),
     NewEvent(StrInit, DescA, EmptyMap, <<ConcHash(DescFF)>>,
              PublicKey("K2"), PrivateKey("K2"), 0),
     NewEvent(StrInit, DescFF, EmptyMap, <<ConcHash(DescA)>>,
              PublicKey("K1"), PrivateKey("K1"), 0),
     NewEvent(StrInit, DescA, EmptyMap, <<>>, PublicKey("K2"), PrivateKey("K1"), 0),
     [NewEvent(StrInit, DescA, EmptyMap, <<>>, PublicKey("K1"), PrivateKey("K1"), 0)
         EXCEPT !.AuthorPubKey = ShortHex]}

ConcCalls ==
    {[op |-> "AddEvent", event |-> e] : e \in ConcEvents}
    \cup {[op |-> "GetEvent", hash |-> h] : h \in ConcHashes}
    \cup {[op |-> "GetAgents"]}
    \cup {[op |-> "GetRecentEvents", limit |-> 1]}
    \cup {[op |-> "GetEventChain", hash |-> h, maxDepth |-> MaxDepth] : h \in ConcHashes}

\* A step of p inside a call, the waits for mu apart.
Proceed(p) ==
    \/ AddVerify(p)
    \/ AddStoreEvent(p)
    \/ AddStoreAgent(p)
    \/ Unlock(p)
    \/ Read(p)
    \/ ChainMake(p)
    \/ Traverse(p)
    \/ RUnlock(p)

NextConc ==
    \/ \E p \in Procs, c \in ConcCalls : Call(p, c)
    \/ \E p \in Procs : Lock(p)
    \/ \E p \in Procs : RLock(p)
    \/ \E p \in Procs : Proceed(p)

SpecConc == Init /\ [][NextConc]_vars

\* The same callers under a fair scheduler: a goroutine inside a call goes on,
\* and one that waits for mu gets it if mu is free again and again (sync.RWMutex
\* lets no waiter starve).
SpecConcFair ==
    /\ Init
    /\ [][NextConc]_vars
    /\ \A p \in Procs : WF_vars(Proceed(p)) /\ SF_vars(Lock(p)) /\ SF_vars(RLock(p))

\* Graphs of four events of one key pair, made within one second: the parents
\* of each are any list of up to two of the hashes of the next two, so that an
\* event can be reached from the first along a longer and a shorter path.
DagPayloads ==
    <<<<StrInit, DescA>>, <<StrInit, DescFF>>, <<StrStateChange, DescA>>,
      <<StrStateChange, DescFF>>>>

DagHash(n) ==
    HashEvent([Data |-> [Type |-> DagPayloads[n][1], Description |-> DagPayloads[n][2],
                         Payload |-> EmptyMap, Timestamp |-> FormatRFC3339(now)]])

DagParentLists(n) ==
    ParentLists({DagHash(m) : m \in {x \in DOMAIN DagPayloads : x > n /\ x <= n + 2}})

NextDag ==
    \/ cur # HandPtr /\ \E n \in DOMAIN DagPayloads : \E par \in DagParentLists(n) :
            CreateEvent(DagPayloads[n][1], DagPayloads[n][2], EmptyMap, par,
                        PublicKey("K1"), PrivateKey("K1"))
    \/ AddEvent(cur)
    \/ cur # HandPtr /\ \E n \in DOMAIN DagPayloads, d \in 0..MaxDepth :
            GetEventChain(DagHash(n), d)

SpecDag == Init /\ [][NextDag]_vars

\* Parents: events of two key pairs, matching or not, with the two payloads of
\* the traversal, whose parents (none, or one of the two hashes) the caller may
\* replace by another such list before it adds them.
SingleParentLists(H) == {<<>>} \cup {<<a>> : a \in H}

NextParents ==
    \/ \E p \in StepPayloads, par \in SingleParentLists(StepHashes),
          k \in {<<"K1", "K1">>, <<"K1", "K2">>} :
            CreateEvent(p[1], p[2], EmptyMap, par, PublicKey(k[1]), PrivateKey(k[2]))
    \/ \E par \in SingleParentLists(StepHashes) : Reparent(par)
    \/ AddEvent(cur)

SpecParents == Init /\ [][NextParents]_vars

\* The agent: CreateInitialEvent once, then decisions while the clock runs, the
\* completion failing or not, and GetEventChain from the agent's last event.
NextAgent ==
    \/ Tick
    \/ last.op = "New" /\ CreateInitialEvent
    \/ last.op # "New" /\ nAdded < MaxAdds /\ \E c \in Completions : MakeDecision(c)
    \/ lastEvent # NoHash /\ \E d \in 0..MaxAdds + 1 : GetEventChain(lastEvent, d)

SpecAgent == Init /\ [][NextAgent]_vars

\* ------------------------------------------------------------------ claims
\* What the claims call a valid signature: both strings are hex, of a 32-byte
\* key and a 64-byte signature, and the signature is the one the private key of
\* the author makes over the hash of the payload.
ValidlySigned(e) ==
    LET pub == DecodeString(e.AuthorPubKey)
        sig == DecodeString(e.Signature)
    IN /\ ~pub.err /\ ~sig.err
       /\ pub.bytes.len = 32
       /\ sig.bytes = ed25519Sign(PrivateKey(pub.bytes.key), HashEvent(e))

\* An event whose author string or signature string is malformed.
Malformed(e) ==
    LET pub == DecodeString(e.AuthorPubKey)
        sig == DecodeString(e.Signature)
    IN pub.err \/ sig.err \/ pub.bytes.len # 32 \/ sig.bytes.len # 64

VerificationErrors ==
    {"invalid public key", "invalid signature", "signature verification failed"}

\* C1: AddEvent takes every event CreateEvent made with a matching key pair
\* without an error, and from then on GetEvent of its hash finds an event with
\* the payload of the created event, whatever was added since.
C1_CreatedEventStoredAndReturned ==
    /\ (last.op = "AddEvent" /\ orig.matching /\ last.arg = orig.event
            => last.ret = "nil")
    /\ (last.op = "GetEvent"
            => \A d \in accepted :
                  HashEvent([Data |-> d]) = last.arg
                      => last.exists /\ Deref(last.ret).Data = d)

\* C2: AddEvent rejects a validly signed event whose payload was changed after
\* signing, with the error of verifyEvent.
C2_TamperedPayloadRejected ==
    last.op = "AddEvent" /\ orig.matching /\ last.arg.Data # orig.event.Data
        => last.ret \in VerificationErrors

\* C3: every stored event is validly signed by the key pair of its author and
\* stored under the hash of its payload, and AddEvent rejects an event that one
\* key signed and that names another key as author.
C3_OnlyValidlySignedStored ==
    /\ \A h \in DOMAIN events : ValidlySigned(events[h]) /\ h = HashEvent(events[h])
    /\ (last.op = "AddEvent" /\ ~Malformed(last.arg)
          /\ DecodeString(last.arg.Signature).bytes.key
                # DecodeString(last.arg.AuthorPubKey).bytes.key
            => last.ret # "nil" /\ last.arg \notin Range(events))

\* AddEvent has just rejected an event signed by one key and attributed to
\* another, with other events in the store.
C3_Witness ==
    /\ last.op = "AddEvent" /\ ~Malformed(last.arg)
    /\ DecodeString(last.arg.Signature).bytes.key
          # DecodeString(last.arg.AuthorPubKey).bytes.key
    /\ last.arg.Data = orig.event.Data
    /\ last.ret = "signature verification failed"
    /\ DOMAIN events # {}

\* C4: a failing AddEvent leaves events and agents as they were.
C4_FailedAddChangesNothing ==
    [][last'.op = "AddEvent" /\ last'.ret # "nil"
          => events' = events /\ agents' = agents]_vars

\* AddEvent has just failed on an event whose hash is stored and whose author
\* has an entry in agents.
C4_Witness ==
    /\ last.op = "AddEvent" /\ last.ret # "nil"
    /\ HashEvent(last.arg) \in DOMAIN events
    /\ events[HashEvent(last.arg)] # last.arg
    /\ last.arg.AuthorPubKey \in DOMAIN agents

\* C5: AddEvent returns a verification error for every event whose author
\* string or signature string is malformed.
C5_MalformedReturnsError ==
    last.op = "AddEvent" /\ Malformed(last.arg) => last.ret \in VerificationErrors

\* The hashes within n parent links of h over the map ev.
RECURSIVE ReachWithin(_, _, _)
ReachWithin(ev, h, n) ==
    IF n = 0 \/ h \notin DOMAIN ev THEN {h}
    ELSE {h} \cup UNION {ReachWithin(ev, ev[h].Parents[i], n - 1) :
                            i \in DOMAIN ev[h].Parents}

\* C6: what GetEventChain(h, d) returns holds no event twice and no event more
\* than d parent links from h.
C6_ChainNoRepeatWithinDepth ==
    last.op = "GetEventChain"
        => /\ \A i \in DOMAIN last.ret, j \in DOMAIN last.ret :
                  last.ret[i] = last.ret[j] => i = j
           /\ \A i \in DOMAIN last.ret :
                  last.ret[i].key \in ReachWithin(events, last.arg, last.maxDepth)

\* GetEventChain has returned two or more events from a start whose parent
\* links lead back to it, with a depth the links did not use up.
C6_Witness ==
    /\ last.op = "GetEventChain"
    /\ Len(last.ret) >= 2
    /\ Len(last.ret) < last.maxDepth
    /\ \E i \in DOMAIN last.ret :
          /\ i > 1
          /\ \E j \in DOMAIN events[last.ret[i].key].Parents :
                events[last.ret[i].key].Parents[j] = last.arg

\* The most steps a traversal over events can take: one for the first call,
\* and for each stored event its own checks and, for each of its parents, the
\* call and the checks of that call.
StepBound ==
    LET RECURSIVE Sum(_)
        Sum(S) == IF S = {} THEN 0
                  ELSE LET h == CHOOSE x \in S : TRUE
                       IN 1 + 2 * Len(events[h].Parents) + Sum(S \ {h})
    IN 1 + Sum(DOMAIN events)

\* C7: GetEventChain ends: a call under way can always take a step or return,
\* it takes no more steps than StepBound, and it returns the chain of
\* GetEventChainResult.
C7_ChainTerminates ==
    /\ call.active => /\ call.steps <= StepBound
                      /\ ENABLED (ChainStep \/ ChainReturn)
                      /\ call.stack = <<>> =>
                            call.chain = GetEventChainResult(events, call.hash, call.maxDepth)

\* A call has returned from a start that is its own parent, or the parent of its
\* parent, with a depth above the number of stored events.
C7_Witness ==
    /\ ~call.active
    /\ last.op = "GetEventChain"
    /\ last.maxDepth > Cardinality(DOMAIN events)
    /\ last.arg \in DOMAIN events
    /\ \E i \in DOMAIN events[last.arg].Parents :
          LET p == events[last.arg].Parents[i]
          IN p = last.arg
             \/ (p \in DOMAIN events /\ \E j \in DOMAIN events[p].Parents :
                    events[p].Parents[j] = last.arg)

\* The lists of stored hashes, no hash twice.
HashLists ==
    {s \in UNION {[1..n -> DOMAIN events] : n \in 1..Cardinality(DOMAIN events)} :
        \A i \in DOMAIN s, j \in DOMAIN s : s[i] = s[j] => i = j}

\* s lists a chain from its newest event: each event has the next as its only
\* parent, and the last has none.
IsLinearChain(s) ==
    /\ \A i \in 1..(Len(s) - 1) : events[s[i]].Parents = <<s[i + 1]>>
    /\ events[s[Len(s)]].Parents = <<>>

\* C8: over a linear chain of k stored events, GetEventChain from the newest
\* with a depth of k or more returns the k events, newest first.
C8_LinearChainReturned ==
    last.op = "GetEventChain"
        => \A s \in HashLists :
              IsLinearChain(s) /\ s[1] = last.arg /\ last.maxDepth >= Len(s)
                  => last.ret = [i \in 1..Len(s) |-> StoredPtr(s[i])]

\* GetEventChain has returned a chain of three events.
C8_Witness ==
    /\ last.op = "GetEventChain"
    /\ Len(last.ret) = 3
    /\ \E s \in HashLists : IsLinearChain(s) /\ s[1] = last.arg /\ Len(s) = 3

\* C9: GetRecentEvents returns the stored events with the latest timestamps,
\* the latest first: no event comes before one with a later timestamp, and no
\* event left out has a later timestamp than one returned.
C9_RecentOrderedByTimestamp ==
    last.op = "GetRecentEvents" /\ ~last.panic
        => /\ \A i \in DOMAIN last.ret, j \in DOMAIN last.ret :
                  i < j => Deref(last.ret[i]).Data.Timestamp
                              >= Deref(last.ret[j]).Data.Timestamp
           /\ \A h \in DOMAIN events, i \in DOMAIN last.ret :
                  StoredPtr(h) \notin Range(last.ret)
                      => events[h].Data.Timestamp
                            <= Deref(last.ret[i]).Data.Timestamp

\* C10: GetRecentEvents(n) with n >= 0 returns min(n, number of stored events)
\* pointers to stored events, no two of them the same.
C10_RecentCount ==
    last.op = "GetRecentEvents" /\ last.arg >= 0
        => /\ ~last.panic
           /\ Len(last.ret) = IF last.arg < Cardinality(DOMAIN events)
                              THEN last.arg ELSE Cardinality(DOMAIN events)
           /\ \A i \in DOMAIN last.ret :
                  last.ret[i].at = "events" /\ last.ret[i].key \in DOMAIN events
           /\ \A i \in DOMAIN last.ret, j \in DOMAIN last.ret :
                  last.ret[i] = last.ret[j] => i = j

\* GetRecentEvents has returned two events of a store that holds more.
C10_Witness ==
    /\ last.op = "GetRecentEvents"
    /\ last.arg = 2
    /\ Len(last.ret) = 2
    /\ Cardinality(DOMAIN events) > 2

\* C11: after k turns of the loop, each a CreateEvent and a successful AddEvent,
\* GetRecentEvents(n) with 0 < n <= k returns n events.
C11_RecentAfterAdds ==
    last.op = "GetRecentEvents" /\ 0 < last.arg /\ last.arg <= iter
        => ~last.panic /\ Len(last.ret) = last.arg

\* The step is a successful AddEvent.
AddedOK == last'.op = "AddEvent" /\ last'.ret = "nil"

\* C12: after a successful AddEvent of an event of author K, agents holds under
\* K an entry with PubKey K and the hash of that event; every entry is kept under
\* its own PubKey, and agents changes in no step but a successful AddEvent, so
\* an event that is created and not added changes no entry.
C12_AgentTracksLastAccepted ==
    [][/\ AddedOK =>
              LET K == last'.arg.AuthorPubKey
              IN /\ K \in DOMAIN agents'
                 /\ agents'[K].PubKey = K
                 /\ agents'[K].LastEventHash = HashEvent(last'.arg)
       /\ \A k \in DOMAIN agents' : agents'[k].PubKey = k
       /\ agents' # agents => AddedOK
      ]_vars

\* The author of the event in hand, created and not added, has had two events
\* accepted, and its entry carries the hash of another event than the one in hand.
C12_Witness ==
    /\ last.op = "CreateEvent"
    /\ cur = HandPtr
    /\ hand.AuthorPubKey \in DOMAIN agents
    /\ agents[hand.AuthorPubKey].LastEventHash # HashEvent(hand)
    /\ Cardinality({h \in DOMAIN events :
                        events[h].AuthorPubKey = hand.AuthorPubKey}) >= 2

\* C13: no step takes an entry out of events or agents, and a successful
\* AddEvent of an event with hash h of author K changes no entry of events but
\* the one under h and no entry of agents but the one under K.
C13_AddChangesOnlyItsEntries ==
    [][/\ DOMAIN events \subseteq DOMAIN events'
       /\ DOMAIN agents \subseteq DOMAIN agents'
       /\ AddedOK =>
              LET h == HashEvent(last'.arg)
                  K == last'.arg.AuthorPubKey
              IN /\ DOMAIN events' \subseteq DOMAIN events \cup {h}
                 /\ DOMAIN agents' \subseteq DOMAIN agents \cup {K}
                 /\ \A x \in DOMAIN events \ {h} : events'[x] = events[x]
                 /\ \A k \in DOMAIN agents \ {K} : agents'[k] = agents[k]
      ]_vars

\* A successful AddEvent has returned, and the maps hold another event and
\* another author besides.
C13_Witness ==
    /\ last.op = "AddEvent"
    /\ last.ret = "nil"
    /\ Cardinality(DOMAIN events) >= 2
    /\ Cardinality(DOMAIN agents) >= 2

\* C14: when AddEvent accepts an event whose payload is that of another stored
\* event, its hash is the key of that event, the event takes its place, and
\* events has the keys it had; GetEvent of the hash then returns the event
\* added last, parents and author included.
C14_SamePayloadOverwrites ==
    /\ [][AddedOK =>
              \A x \in DOMAIN events :
                  events[x].Data = last'.arg.Data /\ events[x] # last'.arg
                      => /\ x = HashEvent(last'.arg)
                         /\ events'[x] = last'.arg
                         /\ DOMAIN events' = DOMAIN events
         ]_vars
    /\ [](last.op = "GetEvent" /\ cur = StoredPtr(last.arg)
              => /\ last.exists
                 /\ Deref(last.ret) = orig.event
                 /\ HashEvent(orig.event) = last.arg)

\* GetEvent has returned an event with a parent, added last, under a hash that
\* is the last hash of another author: the event of that author is gone.
C14_Witness ==
    /\ last.op = "GetEvent"
    /\ last.exists
    /\ cur = StoredPtr(last.arg)
    /\ Deref(last.ret).Parents # <<>>
    /\ \E k \in DOMAIN agents :
          /\ k # Deref(last.ret).AuthorPubKey
          /\ agents[k].LastEventHash = last.arg

\* C15: a step that is a CreateEvent changes neither events nor agents, so what
\* GetRecentEvents and GetAgents read is what it was.
C15_CreateLeavesStore ==
    [][last'.op = "CreateEvent" => events' = events /\ agents' = agents]_vars

\* CreateEvent has returned an event that a store with events in it does not
\* hold, of an author the store knows.
C15_Witness ==
    /\ last.op = "CreateEvent"
    /\ cur = HandPtr
    /\ DOMAIN events # {}
    /\ HashEvent(hand) \notin DOMAIN events
    /\ hand.AuthorPubKey \in DOMAIN agents

\* C16: the maps and the objects in them change in no step but an AddEvent:
\* nothing a caller does with an Event or AgentInfo it holds shows in the store.
C16_StoreChangesOnlyThroughAdd ==
    [][events' # events \/ agents' # agents => last'.op = "AddEvent"]_vars

\* p is between the Lock and the Unlock of an AddEvent.
WriterInside(p) == pc[p] \in {"verify", "events", "agents", "Unlock", "panic"}

\* p is between the RLock and the RUnlock of a read operation.
ReaderInside(p) == pc[p] \in {"read", "make", "traverse", "RUnlock"}

\* C17: while a goroutine is inside the critical section of AddEvent, no other
\* is inside that of AddEvent or of a read operation.
C17_WriterExcludesAll ==
    \A p \in Procs : \A q \in Procs \ {p} :
        WriterInside(p) => ~WriterInside(q) /\ ~ReaderInside(q)

\* Two read operations are inside their critical sections, a GetEventChain in
\* its traversal among them.
C17_Witness ==
    \E p \in Procs : \E q \in Procs \ {p} :
        /\ pc[p] = "read"
        /\ pc[q] = "traverse"
        /\ DOMAIN events # {}

\* C18: whenever a read operation is inside its critical section, events and
\* agents are the maps with each accepted AddEvent applied whole, in the order
\* the AddEvents took the lock: no reader meets the event of an AddEvent without
\* its AgentInfo, and no writer the half of another.
C18_AddEventAtomic ==
    \A p \in Procs :
        ReaderInside(p) \/ pc[p] \in {"verify", "Unlock"}
            => events = abs.events /\ agents = abs.agents

\* A reader has read the maps after two AddEvents of different hashes, and the
\* other goroutine waits for the lock with a third.
C18_Witness ==
    \E p \in Procs : \E q \in Procs \ {p} :
        /\ pc[p] = "RUnlock"
        /\ loc[p].op = "GetAgents"
        /\ pc[q] = "Lock"
        /\ Cardinality(DOMAIN events) >= 2
        /\ Cardinality(DOMAIN agents) >= 2

\* C19: the chain GetEventChain returns is the traversal of events as it was
\* when the call began its traversal under the read lock.
C19_ChainOfOneSnapshot ==
    \A p \in Procs :
        pc[p] = "RUnlock" /\ loc[p].op = "GetEventChain"
            => loc[p].chain = GetEventChainResult(loc[p].snap, loc[p].hash, loc[p].maxDepth)

\* A GetEventChain has ended with two events while the other goroutine waits
\* for the lock with an AddEvent that would put another event under a hash of
\* the chain.
C19_Witness ==
    \E p \in Procs : \E q \in Procs \ {p} :
        /\ pc[p] = "RUnlock"
        /\ loc[p].op = "GetEventChain"
        /\ Len(loc[p].chain) >= 2
        /\ pc[q] = "Lock"
        /\ HashEvent(loc[q].event) \in DOMAIN events
        /\ events[HashEvent(loc[q].event)] # loc[q].event
        /\ verifyEvent(loc[q].event) = "nil"

\* C20: every call returns, and mu is free when no call is under way.
C20_EveryCallReturns ==
    /\ \A p \in Procs : (pc[p] # "idle") ~> (pc[p] = "idle")
    /\ []((\A p \in Procs : pc[p] \in {"idle", "panicked"})
              => mu = [w |-> "none", r |-> {}])

\* C21: what GetEventChain(h, d) returns holds every stored event that can be
\* reached from a stored h along fewer than d parent links, whatever longer
\* paths lead to it as well.
C21_ChainCompleteWithinDepth ==
    last.op = "GetEventChain" /\ last.arg \in DOMAIN events /\ last.maxDepth > 0
        => \A x \in DOMAIN events :
              x \in ReachWithin(events, last.arg, last.maxDepth - 1)
                  => StoredPtr(x) \in Range(last.ret)

\* C22: GetEventChain(startHash, maxDepth), for every maxDepth >= 0, returns a
\* list that starts with the event stored under startHash when there is one,
\* and the empty list when there is none.
C22_ChainStartsWithStart ==
    last.op = "GetEventChain"
        => IF last.arg \in DOMAIN events
           THEN last.ret # <<>> /\ last.ret[1] = StoredPtr(last.arg)
           ELSE last.ret = <<>>

\* C24: GetRecentEvents(limit) returns for every integer limit and every store,
\* and what it returns for a limit of zero or less is the empty list.
C24_RecentAnyLimit ==
    last.op = "GetRecentEvents"
        => ~last.panic /\ (last.arg <= 0 => last.ret = <<>>)

\* The map ev with every parent hash that is not a key of it left out.
StoredParentsOnly(ev) ==
    [h \in DOMAIN ev |->
        [ev[h] EXCEPT !.Parents = SelectSeq(@, LAMBDA x : x \in DOMAIN ev)]]

C26_LastEventIsOwn ==
    \A K \in DOMAIN agents :
        /\ agents[K].LastEventHash \in DOMAIN events
        /\ events[agents[K].LastEventHash].AuthorPubKey = K

\* C26, amended: for every entry agents[K], LastEventHash is a key of events;
\* an accepted AddEvent leaves the event of its own author K under
\* agents[K].LastEventHash, and leaves the author of the event under the
\* LastEventHash of every other key as it was unless that hash is the hash of
\* the event it stored.
C26_LastEventStoredOwnUntilOverwritten ==
    /\ [](\A K \in DOMAIN agents : agents[K].LastEventHash \in DOMAIN events)
    /\ [][AddedOK =>
              LET K == last'.arg.AuthorPubKey
              IN /\ events'[agents'[K].LastEventHash].AuthorPubKey = K
                 /\ \A J \in DOMAIN agents \ {K} :
                       /\ agents'[J] = agents[J]
                       /\ agents[J].LastEventHash # HashEvent(last'.arg)
                             => events'[agents'[J].LastEventHash].AuthorPubKey
                                    = events[agents[J].LastEventHash].AuthorPubKey
         ]_vars

\* Two authors have had events of one payload accepted: the entries of both
\* carry the same hash, and the event under it is the one of the author whose
\* event was accepted last.
C26_Witness ==
    /\ last.op = "AddEvent"
    /\ last.ret = "nil"
    /\ \E J \in DOMAIN agents :
          /\ J # last.arg.AuthorPubKey
          /\ agents[J].LastEventHash = agents[last.arg.AuthorPubKey].LastEventHash
          /\ events[agents[J].LastEventHash].AuthorPubKey = last.arg.AuthorPubKey

\* C27: once CreateInitialEvent has succeeded, every decision event the agent
\* adds has the hash of the event it added before as its only parent and
\* lastEvent is the hash of the event added last; and GetEventChain(lastEvent, d)
\* with d above the number of events the agent added returns that many events,
\* each once, the initialization event last.
C27_AgentChainComplete ==
    /\ [][nAdded' # nAdded
              => /\ lastEvent' \in DOMAIN events'
                 /\ last'.op = "MakeDecision"
                       => events'[lastEvent'].Parents = <<lastEvent>>
         ]_vars
    /\ [](last.op = "GetEventChain" /\ last.arg = lastEvent /\ last.maxDepth > nAdded
              => /\ Len(last.ret) = nAdded
                 /\ Deref(last.ret[Len(last.ret)]).Data.Type = StrInit)

\* C28: a MakeDecision that returns an error leaves events, agents and
\* lastEvent as they were, and a later decision that succeeds has as its parent
\* the lastEvent from before the failure.
C28_FailedDecisionChangesNothing ==
    [][/\ last'.op = "MakeDecision" /\ last'.ret # "nil"
              => events' = events /\ agents' = agents /\ lastEvent' = lastEvent
       /\ last.op = "MakeDecision" /\ last.ret # "nil" /\ nAdded' # nAdded
              => events'[lastEvent'].Parents = <<lastEvent>> /\ lastEvent # NoHash
      ]_vars

\* A completion has failed after the agent had added its initial event and a
\* decision event: MakeDecision has returned the error, and lastEvent is the
\* hash of the stored decision event.
C28_Witness ==
    /\ last.op = "MakeDecision"
    /\ last.ret = "failed to get LLM decision"
    /\ nAdded >= 2
    /\ lastEvent \in DOMAIN events
    /\ events[lastEvent].Data.Type = StrStateChange

=============================================================================
